---- MODULE Spec2Model ----
(***************************************************************************)
(* Model of the bot factory's supervisor (BotManager), its workers         *)
(* (ManagedBot) and the per-user conversation handlers.                    *)
(*                                                                         *)
(* The program runs on one asyncio event loop: a coroutine runs without    *)
(* interruption up to an await that really suspends, so one action of the  *)
(* model is the code between two suspension points.  The calls into the    *)
(* transport library (Application.initialize/start/stop/shutdown,          *)
(* Updater.start_polling/stop) are the suspension points of start_bot and  *)
(* stop_bot; each of them either returns or raises.                        *)
(***************************************************************************)
EXTENDS Naturals, Integers, Sequences, FiniteSets, TLC

VARIABLES
    bots,       \* BotManager.bots: bot_id -> worker
    workers,    \* the ManagedBot objects created so far, by worker id
    calls,      \* the invocations of start_bot / stop_bot, by call id
    handling,   \* per worker: the update whose message_handler is suspended
    sent,       \* counters of the updates delivered so far
    log,        \* per worker and user: every turn appended since the
                \* history was last created or cleared
    lastOp,     \* the handler that completed last, with what it sent
    gw,         \* OnlySqAPI: self.session and the sessions created so far
    stopall,    \* the invocation of BotManager.stop_all
    db,         \* Database: the rows of the table bots, by id
    cbs         \* the operators' requests handled by BotFactory, by request id

vars == <<bots, workers, calls, handling, sent, log, lastOp, gw, stopall, db, cbs>>

----------------------------------------------------------------------------
(* Bounds *)

MaxCalls == 3
NumTenants == 2

CallIds == 1..MaxCalls
Tenants == 1..NumTenants

(* The outcome of one awaited call into the transport library. *)
LibOutcomes == {"ok", "raise"}

(* The behaviour profile stored for a tenant (main.py hands the stored
   system_prompt to start_bot). *)
TenantPrompt(t) == IF t = 1 THEN "friendly tutor" ELSE ""

----------------------------------------------------------------------------
(* ManagedBot and BotManager *)

ManagedBot(t, system_prompt) ==
    [bot_id        |-> t,
     system_prompt |-> system_prompt,
     application   |-> FALSE,     \* self.application is not None
     initialized   |-> FALSE,     \* Application.initialize() done
     running       |-> FALSE,     \* Application.start() done, not stopped
     polling       |-> FALSE,     \* Updater.start_polling() done, not stopped
     user_contexts |-> <<>>]      \* user_id -> history; starts as {}

NoCall ==
    [op |-> "none", bot_id |-> 0, pc |-> "idle", worker |-> 0,
     result |-> "pending", branch |-> "", during |-> {}]

BotManagerInit == <<>>

(* get_running_bots(): the keys of the registry. *)
get_running_bots == DOMAIN bots

(* self.bots[bot_id] = managed_bot *)
register(b, t, w) == (t :> w) @@ b

(* del self.bots[bot_id], for a key that is present *)
unregister(b, t) == [x \in (DOMAIN b) \ {t} |-> b[x]]

(* A call returns to its caller. *)
Return(c, res, br) == [c EXCEPT !.pc = "done", !.result = res, !.branch = br]

(* The transport of a worker has been started and not yet stopped. *)
Live(w) == workers[w].running \/ workers[w].polling

LiveWorkers(t) == {w \in DOMAIN workers : workers[w].bot_id = t /\ Live(w)}

(* The call slots are used in order, so call ids follow invocation order. *)
Unused == {p \in CallIds : calls[p].op = "none"}
NextCall(p) == p \in Unused /\ \A q \in Unused : p <= q

(* The calls that are suspended, between their invocation and their return. *)
InProgress == {p \in CallIds : calls[p].op # "none" /\ calls[p].pc # "done"}

(* A call as it is invoked; during records the calls of the same operation
   on the same tenant that are suspended at that time. *)
NewCall(op, t) ==
    [NoCall EXCEPT !.op = op, !.bot_id = t, !.pc = "check",
        !.during = {q \in InProgress : calls[q].op = op /\ calls[q].bot_id = t}]

ChatUnchanged == UNCHANGED <<handling, sent, log, lastOp, gw>>

(* stop_all and the factory's own handlers are not involved. *)
FactoryUnchanged == UNCHANGED <<stopall, db, cbs>>

----------------------------------------------------------------------------
(* BotManager.start_bot *)

(* except Exception: log, return False *)
start_bot_except(c) == Return(c, "False", "except")

(* if bot_id in self.bots: return False *)
start_bot_already_running(c) == Return(c, "False", "already_running")

(* self.bots[bot_id] = managed_bot; return True *)
start_bot_register(p) ==
    /\ bots' = register(bots, calls[p].bot_id, calls[p].worker)
    /\ calls' = [calls EXCEPT ![p] = Return(calls[p], "True", "return")]

(* The call up to its first suspension: the membership check, the
   construction of the ManagedBot, Application.builder()...build() and the
   entry into application.initialize(). *)
start_bot(p, t, system_prompt, build) ==
    /\ NextCall(p)
    /\ LET c == NewCall("start_bot", t)
       IN  IF t \in DOMAIN bots
           THEN /\ calls' = [calls EXCEPT ![p] = start_bot_already_running(c)]
                /\ UNCHANGED workers
           ELSE IF build = "raise"
           THEN /\ workers' = (p :> ManagedBot(t, system_prompt)) @@ workers
                /\ calls' = [calls EXCEPT ![p] =
                                start_bot_except([c EXCEPT !.worker = p])]
           ELSE /\ workers' = (p :> [ManagedBot(t, system_prompt)
                                         EXCEPT !.application = TRUE])
                                 @@ workers
                /\ calls' = [calls EXCEPT ![p] =
                                [c EXCEPT !.worker = p, !.pc = "initialize"]]
    /\ UNCHANGED bots
    /\ ChatUnchanged

(* start_bot invoked from outside the factory's handlers *)
StartBotCall(p, t, build) ==
    start_bot(p, t, TenantPrompt(t), build) /\ FactoryUnchanged

(* await self.application.initialize() returns or raises *)
StartInitialize(p, o) ==
    /\ calls[p].op = "start_bot" /\ calls[p].pc = "initialize"
    /\ IF o = "ok"
       THEN /\ workers' = [workers EXCEPT ![calls[p].worker].initialized = TRUE]
            /\ calls' = [calls EXCEPT ![p].pc = "app_start"]
       ELSE /\ calls' = [calls EXCEPT ![p] = start_bot_except(calls[p])]
            /\ UNCHANGED workers
    /\ UNCHANGED bots
    /\ ChatUnchanged
    /\ FactoryUnchanged

(* start_polling that does not wait for the updater: the worker is registered
   and True returned as soon as application.start() is done. *)
StartAppStart_M(p, o) ==
    /\ calls[p].op = "start_bot" /\ calls[p].pc = "app_start"
    /\ IF o = "ok"
       THEN /\ workers' = [workers EXCEPT ![calls[p].worker].running = TRUE]
            /\ start_bot_register(p)
       ELSE /\ calls' = [calls EXCEPT ![p] = start_bot_except(calls[p])]
            /\ UNCHANGED <<workers, bots>>
    /\ ChatUnchanged
    /\ FactoryUnchanged

(* await self.application.start() returns or raises *)
StartAppStart(p, o) ==
    /\ calls[p].op = "start_bot" /\ calls[p].pc = "app_start"
    /\ IF o = "ok"
       THEN /\ workers' = [workers EXCEPT ![calls[p].worker].running = TRUE]
            /\ calls' = [calls EXCEPT ![p].pc = "start_polling"]
       ELSE /\ calls' = [calls EXCEPT ![p] = start_bot_except(calls[p])]
            /\ UNCHANGED workers
    /\ UNCHANGED bots
    /\ ChatUnchanged
    /\ FactoryUnchanged

(* await self.application.updater.start_polling(...) returns or raises;
   when it returns, start_polling returns and start_bot registers the
   worker and returns True. *)
StartUpdaterStartPolling(p, o) ==
    /\ calls[p].op = "start_bot" /\ calls[p].pc = "start_polling"
    /\ IF o = "ok"
       THEN /\ workers' = [workers EXCEPT ![calls[p].worker].polling = TRUE]
            /\ start_bot_register(p)
       ELSE /\ calls' = [calls EXCEPT ![p] = start_bot_except(calls[p])]
            /\ UNCHANGED <<workers, bots>>
    /\ ChatUnchanged
    /\ FactoryUnchanged

----------------------------------------------------------------------------
(* BotManager.stop_bot and ManagedBot.stop *)

(* stop_bot without its except clause: the exception reaches the caller. *)
stop_bot_except_M(c) == Return(c, "raised", "propagated")

(* except Exception: log, return False *)
stop_bot_except(c) == Return(c, "False", "except")

(* stop_bot reporting success for an identifier it does not hold. *)
stop_bot_not_found_M(p, c) ==
    /\ calls' = [calls EXCEPT ![p] = Return(c, "True", "not_found")]
    /\ UNCHANGED <<bots, workers>>

(* if bot_id not in self.bots: return False *)
stop_bot_not_found(p, c) ==
    /\ calls' = [calls EXCEPT ![p] = Return(c, "False", "not_found")]
    /\ UNCHANGED <<bots, workers>>

(* stop_bot that forgets the del and returns True. *)
stop_bot_del_M(p) ==
    /\ calls' = [calls EXCEPT ![p] = Return(calls[p], "True", "return")]
    /\ UNCHANGED bots

(* del self.bots[bot_id]; return True -- the del raises KeyError when the
   key is gone, which the except clause turns into False. *)
stop_bot_del(p) ==
    IF calls[p].bot_id \in DOMAIN bots
    THEN /\ bots' = unregister(bots, calls[p].bot_id)
         /\ calls' = [calls EXCEPT ![p] = Return(calls[p], "True", "return")]
    ELSE /\ calls' = [calls EXCEPT ![p] = stop_bot_except(calls[p])]
         /\ UNCHANGED bots

(* The call up to its first suspension: the membership check, the lookup
   self.bots[bot_id] and ManagedBot.stop up to application.updater.stop(). *)
stop_bot(p, t) ==
    /\ NextCall(p)
    /\ LET c == NewCall("stop_bot", t)
       IN  IF t \notin DOMAIN bots
           THEN stop_bot_not_found(p, c)
           ELSE /\ calls' = [calls EXCEPT ![p] =
                        [c EXCEPT !.worker = bots[t], !.pc = "updater_stop"]]
                /\ UNCHANGED <<bots, workers>>
    /\ ChatUnchanged

(* stop_bot invoked from outside stop_all and the factory's handlers *)
StopBotCall(p, t) == stop_bot(p, t) /\ FactoryUnchanged

(* a stop_bot whose except clause empties the registry *)
StopUpdaterStop_M(p, o) ==
    /\ calls[p].op = "stop_bot" /\ calls[p].pc = "updater_stop"
    /\ IF o = "ok"
       THEN /\ workers' = [workers EXCEPT ![calls[p].worker].polling = FALSE]
            /\ calls' = [calls EXCEPT ![p].pc = "app_stop"]
            /\ UNCHANGED bots
       ELSE /\ calls' = [calls EXCEPT ![p] = stop_bot_except(calls[p])]
            /\ bots' = BotManagerInit
            /\ UNCHANGED workers
    /\ ChatUnchanged
    /\ FactoryUnchanged

(* await self.application.updater.stop() returns or raises *)
StopUpdaterStop(p, o) ==
    /\ calls[p].op = "stop_bot" /\ calls[p].pc = "updater_stop"
    /\ IF o = "ok"
       THEN /\ workers' = [workers EXCEPT ![calls[p].worker].polling = FALSE]
            /\ calls' = [calls EXCEPT ![p].pc = "app_stop"]
       ELSE /\ calls' = [calls EXCEPT ![p] = stop_bot_except(calls[p])]
            /\ UNCHANGED workers
    /\ UNCHANGED bots
    /\ ChatUnchanged
    /\ FactoryUnchanged

(* No handler of worker w is suspended. *)
NoHandlerInFlight(w) ==
    IF w \in DOMAIN handling THEN handling[w] = <<>> ELSE TRUE

(* await self.application.stop() returns or raises; it returns once the
   updates already dispatched have been handled, and the code puts no
   time limit on the wait. *)
StopAppStop(p, o) ==
    /\ calls[p].op = "stop_bot" /\ calls[p].pc = "app_stop"
    /\ o = "ok" => NoHandlerInFlight(calls[p].worker)
    /\ IF o = "ok"
       THEN /\ workers' = [workers EXCEPT ![calls[p].worker].running = FALSE]
            /\ calls' = [calls EXCEPT ![p].pc = "shutdown"]
       ELSE /\ calls' = [calls EXCEPT ![p] = stop_bot_except(calls[p])]
            /\ UNCHANGED workers
    /\ UNCHANGED bots
    /\ ChatUnchanged
    /\ FactoryUnchanged

(* await self.application.shutdown() returns or raises; when it returns,
   ManagedBot.stop returns and stop_bot deletes the entry. *)
StopShutdown(p, o) ==
    /\ calls[p].op = "stop_bot" /\ calls[p].pc = "shutdown"
    /\ IF o = "ok"
       THEN /\ workers' = [workers EXCEPT ![calls[p].worker].initialized = FALSE]
            /\ stop_bot_del(p)
       ELSE /\ calls' = [calls EXCEPT ![p] = stop_bot_except(calls[p])]
            /\ UNCHANGED <<workers, bots>>
    /\ ChatUnchanged
    /\ FactoryUnchanged

----------------------------------------------------------------------------
(* Conversation handlers of a ManagedBot *)

HistoryCap == 20
NumUsers == 2
MaxMsgs == 25        \* text updates of user 1 to worker 1
MaxSide == 2         \* all other events: text updates of the other users,
                     \* commands, gateway failures and failed sends

Users == 1..NumUsers

(* The n-th text update of a user and the completion the gateway returns
   for it. *)
UserText(n) == <<"hello", n>>
ReplyText(n) == <<"Hi there!", n>>

(* The fixed texts of onlysq_api.py and bot_manager.py. *)
ApiErrorText == <<"api error", 0>>           \* status != 200
TimeoutText == <<"timeout", 0>>              \* asyncio.TimeoutError
ProcessingErrorText == <<"processing error", 0>>   \* any other exception
ApologyText == <<"handler apology", 0>>      \* message_handler's except
GreetingText == <<"greeting", 0>>            \* start_handler
ResetText == <<"context reset", 0>>          \* reset_handler

GatewayOutcomes == {"ok", "http_error", "timeout", "error"}

Turn(role, content) == [role |-> role, content |-> content]

(* history[-n:] *)
LastN(h, n) == IF Len(h) > n THEN SubSeq(h, Len(h) - n + 1, Len(h)) ELSE h

(* if len(history) > 20: history = history[-20:] *)
ApplyCap(h) == IF Len(h) > HistoryCap THEN LastN(h, HistoryCap) ELSE h

(* a chat that appends the system message whatever the prompt *)
full_messages_M(system_prompt, messages) ==
    <<Turn("system", <<system_prompt, 0>>)>> \o messages

(* OnlySqAPI.chat: the outbound message list *)
full_messages(system_prompt, messages) ==
    IF system_prompt # ""
    THEN <<Turn("system", <<system_prompt, 0>>)>> \o messages
    ELSE messages

(* OnlySqAPI.chat: the text it returns for each outcome of the request *)
chat(g, n) ==
    CASE g = "ok"         -> ReplyText(n)
      [] g = "http_error" -> ApiErrorText
      [] g = "timeout"    -> TimeoutText
      [] OTHER            -> ProcessingErrorText

(* OnlySqAPI.__init__: self.session = None (0); created counts the
   ClientSession objects made so far, closed holds those that are closed. *)
NoSession == [session |-> 0, created |-> 0, closed |-> {}, calls |-> <<>>]

(* _get_session that makes a ClientSession for every call *)
get_session_M(g) ==
    [g EXCEPT !.session = g.created + 1, !.created = g.created + 1]

(* OnlySqAPI._get_session *)
get_session(g) ==
    IF g.session = 0 \/ g.session \in g.closed
    THEN [g EXCEPT !.session = g.created + 1, !.created = g.created + 1]
    ELSE g

(* BotManager.stop_all is not running *)
NoStopAll == [pc |-> "idle", todo |-> <<>>, current |-> 0,
              snapshot |-> {}, issued |-> <<>>]

(* Nothing but the supervisor and the workers: no gateway session yet, no
   stop_all, an empty table, no request of an operator. *)
FactoryIdle ==
    /\ gw = NoSession
    /\ stopall = NoStopAll
    /\ db = <<>>
    /\ cbs = <<>>

(* self.user_contexts[user_id] = h *)
SetContext(uc, u, h) == (u :> h) @@ uc

(* the history of user u, [] when the user has none *)
Context(uc, u) == IF u \in DOMAIN uc THEN uc[u] ELSE <<>>

NoneSent == [msgs |-> <<>>, side |-> 0]

NoOp == [op |-> "none", worker |-> 0, user |-> 0, n |-> 0, had |-> FALSE,
         before |-> <<>>, gateway |-> "", send |-> "", reply |-> <<"", 0>>]

Primary(w, u) == w = 1 /\ u = 1

(* an application built with concurrent_updates(True) *)
concurrent_updates_M == TRUE

(* Application.builder().token(...).build(): the builder is used with its
   defaults, so the application handles its updates one at a time. *)
concurrent_updates == FALSE

(* h without its i-th element *)
RemoveAt(h, i) == SubSeq(h, 1, i - 1) \o SubSeq(h, i + 1, Len(h))

(* The application dispatches an update to a worker whose updater is
   polling, and, unless it handles updates concurrently, only once the
   handler of the previous update has ended. *)
Dispatchable(w) ==
    /\ w \in DOMAIN workers
    /\ workers[w].running /\ workers[w].polling
    /\ concurrent_updates \/ handling[w] = <<>>

(* message_handler up to the suspension in the gateway request *)
MessageArrive(w, u) ==
    /\ Dispatchable(w)
    /\ IF Primary(w, u) THEN sent.msgs[w][u] < MaxMsgs ELSE sent.side < MaxSide
    /\ LET n      == sent.msgs[w][u] + 1
           uc     == workers[w].user_contexts
           had    == u \in DOMAIN uc
           before == Context(uc, u)
           turn   == Turn("user", UserText(n))
           h      == ApplyCap(Append(before, turn))
       IN  /\ workers' = [workers EXCEPT ![w].user_contexts = SetContext(uc, u, h)]
           /\ log' = [log EXCEPT ![w][u] = Append(@, turn)]
           /\ handling' = [handling EXCEPT ![w] = Append(@,
                  [user |-> u, n |-> n, had |-> had, before |-> before,
                   request |-> full_messages(workers[w].system_prompt, h)])]
           /\ sent' = [sent EXCEPT !.msgs[w][u] = n,
                                 !.side = IF Primary(w, u) THEN @ ELSE @ + 1]
    /\ gw' = get_session(gw)
    /\ UNCHANGED <<bots, calls, lastOp>>
    /\ FactoryUnchanged

(* message_handler from the return of chat to its end: the assistant turn
   is appended, the text is sent, and a failed send is answered with the
   apology of the except clause. *)
GatewayRespond(w, g, s) ==
    /\ w \in DOMAIN handling /\ handling[w] # <<>>
    /\ (g # "ok" \/ s # "ok") => sent.side < MaxSide
    /\ \E i \in 1..Len(handling[w]) :
         LET upd      == handling[w][i]
             u        == upd.user
             uc       == workers[w].user_contexts
             response == chat(g, upd.n)
             turn     == Turn("assistant", response)
         IN  /\ workers' = [workers EXCEPT ![w].user_contexts =
                                SetContext(uc, u, Append(Context(uc, u), turn))]
             /\ log' = [log EXCEPT ![w][u] = Append(@, turn)]
             /\ lastOp' = [op |-> "message", worker |-> w, user |-> u,
                           n |-> upd.n, had |-> upd.had, before |-> upd.before,
                           gateway |-> g, send |-> s,
                           reply |-> IF s = "ok" THEN response ELSE ApologyText]
             /\ handling' = [handling EXCEPT ![w] = RemoveAt(@, i)]
    /\ sent' = [sent EXCEPT !.side = IF g # "ok" \/ s # "ok" THEN @ + 1 ELSE @]
    /\ UNCHANGED <<bots, calls, gw>>
    /\ FactoryUnchanged

(* a reset that clears the whole table: self.user_contexts = {user_id: []} *)
clear_context_M(uc, u) == (u :> <<>>)

(* self.user_contexts[user_id] = [] *)
clear_context(uc, u) == SetContext(uc, u, <<>>)

(* reset_handler *)
ResetHandler(w, u) ==
    /\ Dispatchable(w)
    /\ sent.side < MaxSide
    /\ workers' = [workers EXCEPT ![w].user_contexts = clear_context(@, u)]
    /\ log' = [log EXCEPT ![w][u] = <<>>]
    /\ lastOp' = [op |-> "reset", worker |-> w, user |-> u, n |-> 0,
                  had |-> u \in DOMAIN workers[w].user_contexts,
                  before |-> Context(workers[w].user_contexts, u),
                  gateway |-> "", send |-> "ok", reply |-> ResetText]
    /\ sent' = [sent EXCEPT !.side = @ + 1]
    /\ UNCHANGED <<bots, calls, handling, gw>>
    /\ FactoryUnchanged

(* start_handler *)
StartHandler(w, u) ==
    /\ Dispatchable(w)
    /\ sent.side < MaxSide
    /\ workers' = [workers EXCEPT ![w].user_contexts = clear_context(@, u)]
    /\ log' = [log EXCEPT ![w][u] = <<>>]
    /\ lastOp' = [op |-> "start", worker |-> w, user |-> u, n |-> 0,
                  had |-> u \in DOMAIN workers[w].user_contexts,
                  before |-> Context(workers[w].user_contexts, u),
                  gateway |-> "", send |-> "ok", reply |-> GreetingText]
    /\ sent' = [sent EXCEPT !.side = @ + 1]
    /\ UNCHANGED <<bots, calls, handling, gw>>
    /\ FactoryUnchanged

----------------------------------------------------------------------------
(* OnlySqAPI under arbitrary sequences of chat and close calls; gw.calls
   records them in the order of their invocation. *)

MaxGwCalls == 4

GwUnchanged ==
    UNCHANGED <<bots, workers, calls, handling, sent, log, lastOp,
                stopall, db, cbs>>

(* the sessions that exist and are not closed *)
OpenSessions(g) == {x \in 1..g.created : x \notin g.closed}

(* chat up to its suspension in session.post *)
GwChatCall ==
    /\ Len(gw.calls) < MaxGwCalls
    /\ LET g == get_session(gw)
       IN  gw' = [g EXCEPT !.calls = Append(@,
                     [op |-> "chat", pc |-> "post", session |-> g.session,
                      result |-> <<"", 0>>])]
    /\ GwUnchanged

(* chat from the end of the request to its return; a request on a session
   that has been closed meanwhile raises, which chat turns into its
   processing-error text. *)
GwChatReturn(i, o) ==
    /\ i \in 1..Len(gw.calls)
    /\ gw.calls[i].op = "chat" /\ gw.calls[i].pc = "post"
    /\ gw.calls[i].session \in gw.closed => o = "error"
    /\ gw' = [gw EXCEPT !.calls[i].pc = "done", !.calls[i].result = chat(o, i)]
    /\ GwUnchanged

(* close up to its suspension in session.close(), or to its return when
   there is nothing to close; the library marks the session closed at some
   point of session.close(), at once (flip) or by the time it returns. *)
GwCloseCall(flip) ==
    /\ Len(gw.calls) < MaxGwCalls
    /\ IF gw.session # 0 /\ gw.session \notin gw.closed
       THEN gw' = [gw EXCEPT
                     !.closed = IF flip THEN @ \cup {gw.session} ELSE @,
                     !.calls = Append(@,
                        [op |-> "close", pc |-> "closing",
                         session |-> gw.session, result |-> <<"", 0>>])]
       ELSE /\ ~flip
            /\ gw' = [gw EXCEPT !.calls = Append(@,
                        [op |-> "close", pc |-> "done",
                         session |-> 0, result |-> <<"", 0>>])]
    /\ GwUnchanged

(* await self.session.close() returns *)
GwCloseReturn(i) ==
    /\ i \in 1..Len(gw.calls)
    /\ gw.calls[i].op = "close" /\ gw.calls[i].pc = "closing"
    /\ gw' = [gw EXCEPT !.closed = @ \cup {gw.calls[i].session},
                        !.calls[i].pc = "done"]
    /\ GwUnchanged

NextGateway ==
    \/ GwChatCall
    \/ \E i \in 1..MaxGwCalls, o \in GatewayOutcomes : GwChatReturn(i, o)
    \/ \E flip \in BOOLEAN : GwCloseCall(flip)
    \/ \E i \in 1..MaxGwCalls : GwCloseReturn(i)

(* OnlySqAPI.__init__, with the supervisor idle *)
InitGateway ==
    /\ bots = BotManagerInit
    /\ workers = <<>>
    /\ calls = [p \in CallIds |-> NoCall]
    /\ handling = <<>>
    /\ sent = NoneSent
    /\ log = <<>>
    /\ lastOp = NoOp
    /\ FactoryIdle

SpecGateway == InitGateway /\ [][NextGateway]_vars

----------------------------------------------------------------------------
(* The supervisor under arbitrary interleavings of start_bot and stop_bot *)

Init ==
    /\ bots = BotManagerInit
    /\ workers = <<>>
    /\ calls = [p \in CallIds |-> NoCall]
    /\ handling = <<>>
    /\ sent = NoneSent
    /\ log = <<>>
    /\ lastOp = NoOp
    /\ FactoryIdle

Next ==
    \/ \E p \in CallIds, t \in Tenants, o \in LibOutcomes : StartBotCall(p, t, o)
    \/ \E p \in CallIds, o \in LibOutcomes : StartInitialize(p, o)
    \/ \E p \in CallIds, o \in LibOutcomes : StartAppStart(p, o)
    \/ \E p \in CallIds, o \in LibOutcomes : StartUpdaterStartPolling(p, o)
    \/ \E p \in CallIds, t \in Tenants : StopBotCall(p, t)
    \/ \E p \in CallIds, o \in LibOutcomes : StopUpdaterStop(p, o)
    \/ \E p \in CallIds, o \in LibOutcomes : StopAppStop(p, o)
    \/ \E p \in CallIds, o \in LibOutcomes : StopShutdown(p, o)

Spec == Init /\ [][Next]_vars

----------------------------------------------------------------------------
(* The conversation handlers of two running tenants: the state after
   start_bot(1) and start_bot(2) have returned True. *)

Polling(t) ==
    [ManagedBot(t, TenantPrompt(t))
        EXCEPT !.application = TRUE, !.initialized = TRUE,
                          !.running = TRUE, !.polling = TRUE]

StartedCall(t) ==
    [op |-> "start_bot", bot_id |-> t, pc |-> "done", worker |-> t,
     result |-> "True", branch |-> "return", during |-> {}]

ChatTenants == {1, 2}
MaxChatMsgs == 11    \* text updates of user 1 to worker 1 under SpecChat

InitChat ==
    /\ bots = [t \in ChatTenants |-> t]
    /\ workers = [t \in ChatTenants |-> Polling(t)]
    /\ calls = [p \in CallIds |-> IF p \in ChatTenants THEN StartedCall(p) ELSE NoCall]
    /\ handling = [t \in ChatTenants |-> <<>>]
    /\ sent = [NoneSent EXCEPT !.msgs = [t \in ChatTenants |-> [u \in Users |-> 0]]]
    /\ log = [t \in ChatTenants |-> [u \in Users |-> <<>>]]
    /\ lastOp = NoOp
    /\ FactoryIdle

NextChat ==
    \/ \E w \in ChatTenants, u \in Users :
           sent.msgs[w][u] < MaxChatMsgs /\ MessageArrive(w, u)
    \/ \E w \in ChatTenants, g \in GatewayOutcomes, s \in LibOutcomes :
           GatewayRespond(w, g, s)
    \/ \E w \in ChatTenants, u \in Users : ResetHandler(w, u)
    \/ \E w \in ChatTenants, u \in Users : StartHandler(w, u)

SpecChat == InitChat /\ [][NextChat]_vars

----------------------------------------------------------------------------
(* One end-user writes message after message to a running tenant and the
   gateway answers each of them. *)

NextScenario ==
    \/ MessageArrive(1, 1)
    \/ \E s \in LibOutcomes : GatewayRespond(1, "ok", s)

SpecScenario == InitChat /\ [][NextScenario]_vars

----------------------------------------------------------------------------
(* The supervisor and the conversation handlers together: every tenant but
   the last is running, further start_bot and stop_bot calls are made, and
   one end-user writes to the workers that are polling. *)

Started == 1..(NumTenants - 1)
RunUsers == {NumUsers}

InitRun ==
    /\ bots = [t \in Started |-> t]
    /\ workers = [t \in Started |-> Polling(t)]
    /\ calls = [p \in CallIds |-> IF p \in Started THEN StartedCall(p) ELSE NoCall]
    /\ handling = [w \in CallIds |-> <<>>]
    /\ sent = [NoneSent EXCEPT !.msgs = [w \in CallIds |-> [u \in Users |-> 0]]]
    /\ log = [w \in CallIds |-> [u \in Users |-> <<>>]]
    /\ lastOp = NoOp
    /\ FactoryIdle

NextRun ==
    \/ Next
    \/ \E w \in CallIds, u \in RunUsers : ~Primary(w, u) /\ MessageArrive(w, u)
    \/ \E w \in CallIds, g \in GatewayOutcomes, s \in LibOutcomes :
           GatewayRespond(w, g, s)
    \/ \E w \in CallIds, u \in RunUsers : ResetHandler(w, u)
    \/ \E w \in CallIds, u \in RunUsers : StartHandler(w, u)

SpecRun == InitRun /\ [][NextRun]_vars

(* The event loop resumes a suspended stop_bot whenever the library call it
   awaits can return.  Nothing obliges a handler to end: its gateway request
   and its send are left without fairness. *)
StopProgress ==
    \A p \in CallIds :
        /\ WF_vars(StopUpdaterStop(p, "ok"))
        /\ WF_vars(StopAppStop(p, "ok"))
        /\ WF_vars(StopShutdown(p, "ok"))

SpecRunFair == SpecRun /\ StopProgress

----------------------------------------------------------------------------
(* BotManager.stop_all, with one more start_bot or stop_bot made by another
   task.  Every tenant is running at the start; the calls that started them
   are over and not recorded, and their workers have ids above the call ids. *)

InitStopAll ==
    /\ bots = [t \in Tenants |-> MaxCalls + t]
    /\ workers = [w \in {MaxCalls + t : t \in Tenants} |-> Polling(w - MaxCalls)]
    /\ calls = [p \in CallIds |-> NoCall]
    /\ handling = <<>>
    /\ sent = NoneSent
    /\ log = <<>>
    /\ lastOp = NoOp
    /\ FactoryIdle

(* the orders in which the keys of a dict holding the set S can come *)
Orders(S) ==
    {q \in [1..Cardinality(S) -> S] :
        \A i, j \in 1..Cardinality(S) : q[i] = q[j] => i = j}

(* stop_all is at the head of its loop: it has just been invoked, or the
   stop_bot it awaited has returned.  A coroutine that gets the result of
   an await runs on without giving way to the event loop. *)
StopAllPending ==
    /\ stopall.pc = "loop"
    /\ IF stopall.current = 0 THEN TRUE
       ELSE calls[stopall.current].pc = "done"

(* list(self.bots.keys()) *)
StopAllCall(order) ==
    /\ stopall.pc = "idle"
    /\ order \in Orders(DOMAIN bots)
    /\ stopall' = [stopall EXCEPT !.pc = "loop", !.todo = order,
                                  !.snapshot = DOMAIN bots]
    /\ UNCHANGED <<bots, workers, calls, db, cbs>>
    /\ ChatUnchanged

(* a loop that gives up at the first stop_bot that returns False *)
StopAllStep_M(p) ==
    /\ StopAllPending
    /\ IF \/ stopall.todo = <<>>
          \/ stopall.current # 0 /\ calls[stopall.current].result = "False"
       THEN /\ p = 1
            /\ stopall' = [stopall EXCEPT !.pc = "done", !.current = 0]
            /\ UNCHANGED <<bots, workers, calls>>
            /\ ChatUnchanged
       ELSE /\ stop_bot(p, Head(stopall.todo))
            /\ stopall' = [stopall EXCEPT !.todo = Tail(@), !.current = p,
                                          !.issued = Append(@, p)]
    /\ UNCHANGED <<db, cbs>>

(* for bot_id in ...: await self.stop_bot(bot_id) -- one turn of the loop,
   up to the first suspension of the stop_bot it invokes, or the end of
   the loop and the return of stop_all *)
StopAllStep(p) ==
    /\ StopAllPending
    /\ IF stopall.todo = <<>>
       THEN /\ p = 1
            /\ stopall' = [stopall EXCEPT !.pc = "done", !.current = 0]
            /\ UNCHANGED <<bots, workers, calls>>
            /\ ChatUnchanged
       ELSE /\ stop_bot(p, Head(stopall.todo))
            /\ stopall' = [stopall EXCEPT !.todo = Tail(@), !.current = p,
                                          !.issued = Append(@, p)]
    /\ UNCHANGED <<db, cbs>>

(* Call ids are kept for the stop_bot calls that stop_all has yet to make. *)
Reserve ==
    Cardinality(Unused) >
        (IF stopall.pc = "idle" THEN NumTenants ELSE Len(stopall.todo))

NextStopAll ==
    \/ \E p \in CallIds : StopAllStep(p)
    \/ \E order \in Orders(Tenants) : ~StopAllPending /\ StopAllCall(order)
    \/ \E p \in CallIds, t \in Tenants, o \in LibOutcomes :
           ~StopAllPending /\ Reserve /\ StartBotCall(p, t, o)
    \/ \E p \in CallIds, t \in Tenants :
           ~StopAllPending /\ Reserve /\ StopBotCall(p, t)
    \/ \E p \in CallIds, o \in LibOutcomes :
           ~StopAllPending /\ StartInitialize(p, o)
    \/ \E p \in CallIds, o \in LibOutcomes :
           ~StopAllPending /\ StartAppStart(p, o)
    \/ \E p \in CallIds, o \in LibOutcomes :
           ~StopAllPending /\ StartUpdaterStartPolling(p, o)
    \/ \E p \in CallIds, o \in LibOutcomes :
           ~StopAllPending /\ StopUpdaterStop(p, o)
    \/ \E p \in CallIds, o \in LibOutcomes :
           ~StopAllPending /\ StopAppStop(p, o)
    \/ \E p \in CallIds, o \in LibOutcomes :
           ~StopAllPending /\ StopShutdown(p, o)

SpecStopAll == InitStopAll /\ [][NextStopAll]_vars

----------------------------------------------------------------------------
(* The factory's handlers of the operators' requests (main.py): manage_bot,
   stop_bot_callback, start_bot_callback, delete_bot_callback.  The factory's
   application is built with the builder's defaults too, so it handles one
   request at a time; cbs holds the request being handled, or the one
   handled last with its answer, the number of requests made, and the kinds
   of refusal met so far. *)

NumOperators == 2
MaxRequests == 3

Operators == 1..NumOperators
RequestKinds == {"manage", "stop", "start", "delete"}

NotFoundText == <<"bot not found", 0>>
ManageText(active) == <<"manage", IF active THEN 1 ELSE 0>>
StoppedText == <<"stopped", 0>>
StartedText == <<"started", 0>>
StartFailedText == <<"start failed", 0>>
DeletedText == <<"deleted", 0>>

NoRequest == [pc |-> "idle", kind |-> "", operator |-> 0, bot_id |-> 0,
              call |-> 0, n |-> 0, reply |-> <<"", 0>>, refused |-> {},
              seq |-> NumTenants - 1]     \* sqlite_sequence: the last id given

(* Database.get_bot: the row, or None (here the empty tuple) *)
get_bot(d, b) == IF b \in DOMAIN d THEN d[b] ELSE <<>>

(* Database.update_bot_status: UPDATE ... WHERE id = ? *)
update_bot_status(d, b, active) ==
    IF b \in DOMAIN d THEN [d EXCEPT ![b].is_active = active] ELSE d

(* Database.delete_bot: DELETE ... WHERE id = ? *)
delete_bot(d, b) == [x \in (DOMAIN d) \ {b} |-> d[x]]

(* a check that asks only whether the row exists *)
Rejected_M(d, b, o) == get_bot(d, b) = <<>>

(* if not bot or bot['user_id'] != update.effective_user.id *)
Rejected(d, b, o) == get_bot(d, b) = <<>> \/ get_bot(d, b).user_id # o

(* the handler returns after sending the text *)
Answer(text) ==
    cbs' = [cbs EXCEPT !.pc = "done", !.reply = text,
               !.refused = IF text # NotFoundText THEN @
                           ELSE IF cbs.bot_id \in DOMAIN db
                           THEN @ \cup {"not owned"}
                           ELSE @ \cup {"missing"}]

(* Every tenant but the last has a row, owned by operator 1, and is
   running; the calls that started them are over and not recorded. *)
InitFactory ==
    /\ bots = [t \in Started |-> MaxCalls + t]
    /\ workers = [w \in {MaxCalls + t : t \in Started} |-> Polling(w - MaxCalls)]
    /\ calls = [p \in CallIds |-> NoCall]
    /\ handling = <<>>
    /\ sent = NoneSent
    /\ log = <<>>
    /\ lastOp = NoOp
    /\ gw = NoSession
    /\ stopall = NoStopAll
    /\ db = [t \in Started |-> [user_id |-> 1, is_active |-> TRUE,
                               system_prompt |-> TenantPrompt(t)]]
    /\ cbs = NoRequest

(* An operator presses a button: the handler is entered and suspends in
   query.answer(). *)
Request(kind, o, b) ==
    /\ cbs.pc \in {"idle", "done"}
    /\ cbs.n < MaxRequests
    /\ Unused # {}
    /\ cbs' = [cbs EXCEPT !.pc = "answer", !.kind = kind, !.operator = o,
                          !.bot_id = b, !.call = 0, !.n = @ + 1,
                          !.reply = <<"", 0>>]
    /\ UNCHANGED <<bots, workers, calls, db, stopall>>
    /\ ChatUnchanged

(* From the return of query.answer(): the row is read and checked; a
   rejected request is answered "not found", manage_bot answers with the
   bot's menu, the other handlers call the supervisor and run up to the
   first suspension of start_bot or stop_bot. *)
Check(p, build) ==
    /\ cbs.pc = "answer"
    /\ IF Rejected(db, cbs.bot_id, cbs.operator)
       THEN /\ p = 1 /\ build = "ok"
            /\ Answer(NotFoundText)
            /\ UNCHANGED <<bots, workers, calls>>
            /\ ChatUnchanged
       ELSE IF cbs.kind = "manage"
       THEN /\ p = 1 /\ build = "ok"
            /\ Answer(ManageText(db[cbs.bot_id].is_active))
            /\ UNCHANGED <<bots, workers, calls>>
            /\ ChatUnchanged
       ELSE IF cbs.kind = "start"
       THEN /\ start_bot(p, cbs.bot_id, db[cbs.bot_id].system_prompt, build)
            /\ cbs' = [cbs EXCEPT !.pc = "await_call", !.call = p]
       ELSE /\ build = "ok"
            /\ stop_bot(p, cbs.bot_id)
            /\ cbs' = [cbs EXCEPT !.pc = "await_call", !.call = p]
    /\ UNCHANGED <<db, stopall>>

(* From the return of start_bot or stop_bot to the end of the handler. *)
Resume ==
    /\ cbs.pc = "await_call"
    /\ calls[cbs.call].pc = "done"
    /\ CASE cbs.kind = "stop" ->
              /\ db' = update_bot_status(db, cbs.bot_id, FALSE)
              /\ Answer(StoppedText)
         [] cbs.kind = "delete" ->
              /\ db' = delete_bot(db, cbs.bot_id)
              /\ Answer(DeletedText)
         [] OTHER ->
              IF calls[cbs.call].result = "True"
              THEN /\ db' = update_bot_status(db, cbs.bot_id, TRUE)
                   /\ Answer(StartedText)
              ELSE /\ UNCHANGED db
                   /\ Answer(StartFailedText)
    /\ UNCHANGED <<bots, workers, calls, stopall>>
    /\ ChatUnchanged

NextFactory ==
    \/ \E kind \in RequestKinds, o \in Operators, b \in Tenants : Request(kind, o, b)
    \/ \E p \in CallIds, build \in LibOutcomes : Check(p, build)
    \/ Resume
    \/ \E p \in CallIds, o \in LibOutcomes : StartInitialize(p, o)
    \/ \E p \in CallIds, o \in LibOutcomes : StartAppStart(p, o)
    \/ \E p \in CallIds, o \in LibOutcomes : StartUpdaterStartPolling(p, o)
    \/ \E p \in CallIds, o \in LibOutcomes : StopUpdaterStop(p, o)
    \/ \E p \in CallIds, o \in LibOutcomes : StopAppStop(p, o)
    \/ \E p \in CallIds, o \in LibOutcomes : StopShutdown(p, o)

SpecFactory == InitFactory /\ [][NextFactory]_vars

----------------------------------------------------------------------------
(* A new run of the process over the table an earlier run has left: the
   rows of the tenants created then are there, marked active (is_active
   defaults to 1), and the new BotManager holds no worker. *)

(* Database.get_all_active_bots: the ids of the rows marked active *)
get_all_active_bots(d) == {b \in DOMAIN d : d[b].is_active}

InitRestart ==
    /\ bots = BotManagerInit
    /\ workers = <<>>
    /\ calls = [p \in CallIds |-> NoCall]
    /\ handling = <<>>
    /\ sent = NoneSent
    /\ log = <<>>
    /\ lastOp = NoOp
    /\ gw = NoSession
    /\ stopall = NoStopAll
    /\ db = [t \in Started |-> [user_id |-> 1, is_active |-> TRUE,
                               system_prompt |-> TenantPrompt(t)]]
    /\ cbs = [NoRequest EXCEPT !.pc = "boot"]

(* BotFactory.run: the application is built, the handlers are added and
   run_polling begins to take the operators' requests; the table is not
   read and no worker is started. *)
Run ==
    /\ cbs.pc = "boot"
    /\ cbs' = [cbs EXCEPT !.pc = "idle"]
    /\ UNCHANGED <<bots, workers, calls, db, stopall>>
    /\ ChatUnchanged

NextRestart ==
    \/ Run
    \/ NextFactory

SpecRestart == InitRestart /\ [][NextRestart]_vars

----------------------------------------------------------------------------
(* The creation of a tenant: BotFactory.create_finish, the last step of the
   /create conversation, entered with the operator's description and name
   in user_data and a token of the valid format.  It is one of the
   factory's handlers, so it runs while no other request is handled. *)

CreatingText == <<"creating", 0>>
CreatedText == <<"created", 0>>
CreateFailedText == <<"create failed", 0>>

(* OnlySqAPI.generate_bot_prompt: system_prompt = await self.chat(...);
   return system_prompt -- the text chat returns, whatever the outcome of
   the request *)
generate_bot_prompt(g, n) == chat(g, n)[1]

(* Database.create_bot: INSERT; the row gets the next id of the sequence,
   is_active defaults to 1 *)
create_bot(d, b, o, system_prompt) ==
    (b :> [user_id |-> o, is_active |-> TRUE, system_prompt |-> system_prompt])
        @@ d

(* The handler is entered, the token passes _validate_token and the
   handler suspends in reply_text("creating..."). *)
CreateRequest(o) ==
    /\ cbs.pc \in {"idle", "done"}
    /\ cbs.n < MaxRequests
    /\ cbs.seq < NumTenants
    /\ Unused # {}
    /\ cbs' = [cbs EXCEPT !.pc = "creating", !.kind = "create", !.operator = o,
                          !.bot_id = 0, !.call = 0, !.n = @ + 1,
                          !.reply = CreatingText]
    /\ UNCHANGED <<bots, workers, calls, db, stopall>>
    /\ ChatUnchanged

(* generate_bot_prompt is called and suspends in chat's session.post. *)
CreateGenerate ==
    /\ cbs.pc = "creating"
    /\ cbs' = [cbs EXCEPT !.pc = "generate"]
    /\ gw' = get_session(gw)
    /\ UNCHANGED <<bots, workers, calls, db, stopall, handling, sent, log, lastOp>>

(* From the end of the gateway's request, whatever its outcome (chat
   catches every exception of the request and returns a text, so nothing
   is raised into the handler's try): the text is stored as the tenant's
   system_prompt, and start_bot is called with it and runs up to its first
   suspension. *)
CreateStore(g, p, build) ==
    /\ cbs.pc = "generate"
    /\ LET system_prompt == generate_bot_prompt(g, cbs.n)
           bot_id == cbs.seq + 1
       IN  /\ db' = create_bot(db, bot_id, cbs.operator, system_prompt)
           /\ start_bot(p, bot_id, system_prompt, build)
           /\ cbs' = [cbs EXCEPT !.pc = "await_create", !.bot_id = bot_id,
                                 !.call = p, !.seq = bot_id]
    /\ UNCHANGED stopall

(* From the return of start_bot to the end of the handler: the row is
   deleted when the worker did not start. *)
CreateResume ==
    /\ cbs.pc = "await_create"
    /\ calls[cbs.call].pc = "done"
    /\ IF calls[cbs.call].result = "True"
       THEN /\ UNCHANGED db
            /\ Answer(CreatedText)
       ELSE /\ db' = delete_bot(db, cbs.bot_id)
            /\ Answer(CreateFailedText)
    /\ UNCHANGED <<bots, workers, calls, stopall>>
    /\ ChatUnchanged

NextCreate ==
    \/ \E o \in Operators : CreateRequest(o)
    \/ CreateGenerate
    \/ \E g \in GatewayOutcomes, p \in CallIds, build \in LibOutcomes :
           CreateStore(g, p, build)
    \/ CreateResume
    \/ NextFactory

SpecCreate == InitFactory /\ [][NextCreate]_vars

----------------------------------------------------------------------------
(* Properties of the supervisor, checked under Spec *)

Starts(t) == {p \in CallIds : calls[p].op = "start_bot" /\ calls[p].bot_id = t}
Stops(t) == {p \in CallIds : calls[p].op = "stop_bot" /\ calls[p].bot_id = t}
Done(p) == calls[p].pc = "done"
Returns(p) == calls[p].pc # "done" /\ calls'[p].pc = "done"

(* C1: in every reachable state at most one live worker (transport started
   and not yet stopped) exists per tenant identifier. *)
C1_AtMostOneLiveWorker ==
    \A t \in Tenants : Cardinality(LiveWorkers(t)) <= 1

(* C2: when start_bot is invoked twice for one tenant identifier with no
   stop in between, and neither call meets a worker failure, exactly one of
   the two calls returns True and the other returns False. *)
C2_ExactlyOneStartSucceeds ==
    \A t \in Tenants : \A p, q \in Starts(t) :
        ( /\ p < q
          /\ Starts(t) = {p, q} /\ Stops(t) = {}
          /\ Done(p) /\ Done(q)
          /\ calls[p].branch # "except" /\ calls[q].branch # "except" )
        => ( /\ {calls[p].result, calls[q].result} = {"True", "False"}
             /\ calls[p].result # calls[q].result )

(* C3: at the return of a start_bot(T) that returns True the list of running
   bots contains T, and at the return of a stop_bot(T) that returns True it
   does not contain T. *)
C3_ListedAfterStartUnlistedAfterStop ==
    [][ \A p \in CallIds :
          (Returns(p) /\ calls'[p].result = "True")
          => ( /\ calls'[p].op = "start_bot" => calls'[p].bot_id \in get_running_bots'
               /\ calls'[p].op = "stop_bot" => calls'[p].bot_id \notin get_running_bots' )
      ]_vars

(* a start of T returned True, a later stop of T returned True, T is not listed *)
C3_Witness ==
    \E t \in Tenants : \E p \in Starts(t), q \in Stops(t) :
        /\ p < q
        /\ Done(p) /\ calls[p].result = "True"
        /\ Done(q) /\ calls[q].result = "True"
        /\ t \notin get_running_bots

(* C4: a stop_bot invoked while an earlier stop_bot of the same running
   tenant is still in progress observes "not found" and returns False, and
   no stop_bot raises to its caller. *)
C4_LaterStopObservesNotFound ==
    \A q \in CallIds :
        (calls[q].op = "stop_bot" /\ calls[q].during # {})
        => ( /\ Done(q)
             /\ calls[q].branch = "not_found"
             /\ calls[q].result = "False" )

(* C5: stop_bot(T) for a T that is not in the registry returns False and
   leaves the registry and every worker unchanged. *)
C5_StopUnknownReturnsFalseUnchanged ==
    [][ \A p \in CallIds :
          ( /\ calls[p].op = "none" /\ calls'[p].op = "stop_bot"
            /\ calls'[p].bot_id \notin DOMAIN bots )
          => ( /\ calls'[p].pc = "done"
               /\ calls'[p].result = "False"
               /\ bots' = bots
               /\ workers' = workers )
      ]_vars

(* a stop of an unregistered identifier has returned False while another
   tenant's worker is registered and live *)
C5_Witness ==
    \E p \in CallIds :
        /\ calls[p].op = "stop_bot" /\ calls[p].branch = "not_found"
        /\ calls[p].result = "False"
        /\ \E t \in DOMAIN bots : t # calls[p].bot_id /\ Live(bots[t])

(* C10: start_bot and stop_bot never raise to their caller: every call that
   has ended has returned True or False, and False when a failure of the
   worker was caught. *)
C10_NoExceptionPropagates ==
    \A p \in CallIds :
        /\ calls[p].result \in {"pending", "True", "False"}
        /\ Done(p) => calls[p].result \in {"True", "False"}
        /\ (Done(p) /\ calls[p].branch = "except") => calls[p].result = "False"

(* a start_bot and a stop_bot have both ended in their except clause *)
C10_Witness ==
    \E p, q \in CallIds :
        /\ calls[p].op = "start_bot" /\ calls[p].branch = "except" /\ Done(p)
        /\ calls[q].op = "stop_bot" /\ calls[q].branch = "except" /\ Done(q)

(* C11: start_bot returns True only once the worker's updater is polling,
   with that worker registered; a start_bot that ends in a failure of the
   worker's initialization returns False and adds nothing to the registry. *)
C11_TrueOnlyWhenPolling ==
    [][ \A p \in CallIds :
          (Returns(p) /\ calls'[p].op = "start_bot")
          => ( /\ calls'[p].result = "True"
                    => ( /\ workers'[calls'[p].worker].running
                         /\ workers'[calls'[p].worker].polling
                         /\ calls'[p].bot_id \in DOMAIN bots'
                         /\ bots'[calls'[p].bot_id] = calls'[p].worker )
               /\ calls'[p].branch = "except"
                    => ( /\ calls'[p].result = "False"
                         /\ bots' = bots ) )
      ]_vars

(* one start_bot has returned True, and one whose start_polling failed after
   application.start() has returned False with its tenant unregistered *)
C11_Witness ==
    \E p, q \in CallIds :
        /\ calls[p].op = "start_bot" /\ Done(p) /\ calls[p].result = "True"
        /\ calls[q].op = "start_bot" /\ Done(q) /\ calls[q].branch = "except"
        /\ workers[calls[q].worker].running
        /\ calls[q].bot_id \notin DOMAIN bots

(* C12: no start_bot(T) returns True while a stop_bot of T is still in
   progress, releasing the previous worker. *)
C12_NoStartDuringStop ==
    [][ \A p \in CallIds :
          (Returns(p) /\ calls'[p].op = "start_bot" /\ calls'[p].result = "True")
          => ~ \E q \in InProgress :
                   /\ calls[q].op = "stop_bot"
                   /\ calls[q].bot_id = calls'[p].bot_id
      ]_vars

(* C23: every worker whose transport has been started and not stopped, and
   whose start_bot is no longer in progress, is the worker the registry
   holds under its tenant identifier. *)
C23_NoOrphanedWorkers ==
    \A w \in DOMAIN workers :
        ( /\ Live(w)
          /\ ~ \E p \in InProgress :
                  calls[p].op = "start_bot" /\ calls[p].worker = w )
        => /\ workers[w].bot_id \in DOMAIN bots
           /\ bots[workers[w].bot_id] = w

----------------------------------------------------------------------------
(* Properties of the conversation handlers, checked under SpecChat *)

History(w, u) == Context(workers[w].user_contexts, u)

(* The state is the one in which the handler recorded in lastOp ended. *)
JustHandled(op) ==
    /\ lastOp.op = op
    /\ handling[lastOp.worker] = <<>>

(* C6: the history of every (tenant, end-user) never exceeds 20 turns,
   after the user turn is appended and after the assistant turn is. *)
C6_HistoryNeverExceedsCap ==
    \A w \in DOMAIN log : \A u \in Users : Len(History(w, u)) <= HistoryCap

(* C7: after a message whose gateway request timed out or got a non-2xx
   response, a fixed apology text has been sent and the history is the
   history before the handler plus only the user turn. *)
C7_GatewayFailureAddsNoAssistantTurn ==
    (JustHandled("message") /\ lastOp.gateway \in {"timeout", "http_error"})
    => ( /\ lastOp.reply \in {ApologyText, ApiErrorText, TimeoutText}
         /\ History(lastOp.worker, lastOp.user) =
               ApplyCap(Append(lastOp.before, Turn("user", UserText(lastOp.n)))) )

(* C8: once more than 20 turns have been appended for a (tenant, end-user),
   the history holds exactly the most recent 20 of them, in order. *)
C8_KeepsMostRecentTwenty ==
    \A w \in DOMAIN log : \A u \in Users :
        Len(log[w][u]) > HistoryCap
        => History(w, u) = LastN(log[w][u], HistoryCap)

(* The step is reset_handler for user u of worker w. *)
ResetStep(w, u) ==
    /\ lastOp'.op = "reset" /\ lastOp'.worker = w /\ lastOp'.user = u
    /\ sent'.side # sent.side
    /\ handling' = handling

(* C9: a reset command of user U empties U's history, whether or not U had
   one, and changes the history of no other user of any tenant. *)
C9_ResetClearsOnlyTheInvoker ==
    [][ \A w \in DOMAIN log : \A u \in Users :
          ResetStep(w, u)
          => ( /\ u \in DOMAIN workers'[w].user_contexts
               /\ workers'[w].user_contexts[u] = <<>>
               /\ \A w2 \in DOMAIN log : \A u2 \in Users :
                     (w2 # w \/ u2 # u)
                     => ( /\ (u2 \in DOMAIN workers'[w2].user_contexts)
                               <=> (u2 \in DOMAIN workers[w2].user_contexts)
                          /\ Context(workers'[w2].user_contexts, u2)
                               = Context(workers[w2].user_contexts, u2) ) )
      ]_vars

(* a user without a history has just reset, while another user of the same
   tenant holds a history *)
C9_Witness ==
    /\ JustHandled("reset")
    /\ ~lastOp.had
    /\ History(lastOp.worker, lastOp.user) = <<>>
    /\ \E u2 \in Users : u2 # lastOp.user /\ Len(History(lastOp.worker, u2)) > 0

(* the turn c answers the user turn t *)
Answers(c, t) ==
    /\ c.role = "assistant"
    /\ \E g \in GatewayOutcomes : c.content = chat(g, t.content[2])

(* h is what is left of l after turns were dropped from its front *)
IsSuffix(h, l) ==
    /\ Len(h) <= Len(l)
    /\ \A k \in 1..Len(h) : h[k] = l[Len(l) - Len(h) + k]

(* C13: the turns of one end-user are appended in the order of arrival: the
   sequence of the turns appended is a user turn, the assistant turn that
   answers it, the next user turn, its answer, and so on, with the messages
   in the order they came; and the history is the tail of this sequence. *)
C13_TurnsInArrivalOrder ==
    \A w \in DOMAIN log : \A u \in DOMAIN log[w] :
        LET l == log[w][u] IN
        /\ \A i \in 1..Len(l) :
              IF i % 2 = 1
              THEN /\ l[i].role = "user"
                   /\ i > 2 => l[i - 2].content[2] < l[i].content[2]
              ELSE Answers(l[i], l[i - 1])
        /\ IsSuffix(History(w, u), l)

(* two messages of one end-user have both been answered *)
C13_Witness ==
    \E w \in DOMAIN log : \E u \in DOMAIN log[w] :
        /\ Len(History(w, u)) >= 4
        /\ History(w, u)[1] = Turn("user", UserText(1))
        /\ History(w, u)[2].role = "assistant"
        /\ History(w, u)[3] = Turn("user", UserText(2))
        /\ History(w, u)[4].role = "assistant"

(* C17: after a successful exchange the history is its previous content
   followed by the user turn and the assistant turn, subject to the cap, and
   the reply sent is the text the gateway returned. *)
C17_SuccessfulExchange ==
    (JustHandled("message") /\ lastOp.gateway = "ok" /\ lastOp.send = "ok")
    => LET m == UserText(lastOp.n)
           r == ReplyText(lastOp.n)
       IN  /\ History(lastOp.worker, lastOp.user) =
                  ApplyCap(ApplyCap(Append(lastOp.before, Turn("user", m)))
                           \o <<Turn("assistant", r)>>)
           /\ lastOp.reply = r

(* C19: the message list sent to the gateway holds one system message, with
   the tenant's prompt, in front when the prompt is not empty and no system
   message otherwise, and after it the turns of the history in their order. *)
C19_OutboundMessageList ==
    \A w \in DOMAIN handling : \A i \in 1..Len(handling[w]) :
        LET req    == handling[w][i].request
            h      == History(w, handling[w][i].user)
            prompt == workers[w].system_prompt
            k      == IF prompt # "" THEN 1 ELSE 0
        IN  /\ Len(req) = Len(h) + k
            /\ k = 1 => req[1] = Turn("system", <<prompt, 0>>)
            /\ \A j \in 1..Len(h) : req[j + k] = h[j]
            /\ \A j \in 1..Len(h) : h[j].role # "system"

(* both kinds of request are in flight: one with a system prompt and a
   history of several turns, one of a tenant with an empty prompt *)
C19_Witness ==
    \E w, x \in DOMAIN handling :
        /\ handling[w] # <<>> /\ workers[w].system_prompt # ""
        /\ Len(handling[w][1].request) >= 4
        /\ handling[x] # <<>> /\ workers[x].system_prompt = ""
        /\ Len(handling[x][1].request) >= 1

----------------------------------------------------------------------------
(* Properties of the supervisor and the handlers together *)

(* C14: once stop_bot has stopped the updater no new update is dispatched to
   the worker, the worker is not stopped while a handler is in flight, and
   every stop_bot eventually returns, whether or not the handlers end. *)
C14_StopAlwaysReturns ==
    \A p \in CallIds : (calls[p].op = "stop_bot") ~> Done(p)

(* A start_bot or stop_bot of tenant t ends in its except clause, or a
   message_handler of a worker of tenant t ends after a failure of the
   gateway or of the send. *)
FailingStep(t) ==
    \/ \E p \in CallIds :
          Returns(p) /\ calls'[p].branch = "except" /\ calls'[p].bot_id = t
    \/ \E w \in DOMAIN workers :
          /\ workers[w].bot_id = t
          /\ Len(handling'[w]) < Len(handling[w])
          /\ lastOp'.gateway # "ok" \/ lastOp'.send # "ok"

(* Everything of tenant t is the same after the step as before it. *)
TenantUntouched(t) ==
    /\ (t \in DOMAIN bots') = (t \in DOMAIN bots)
    /\ t \in DOMAIN bots => bots'[t] = bots[t]
    /\ \A w \in DOMAIN workers :
          workers[w].bot_id = t
          => workers'[w] = workers[w] /\ handling'[w] = handling[w]

(* C16: a failure inside one tenant's start, stop or message handling leaves
   the registry entry, the workers and the histories of every other tenant
   as they were. *)
C16_FailureLeavesOthersUnchanged ==
    [][ \A t \in Tenants :
          FailingStep(t) => \A x \in Tenants \ {t} : TenantUntouched(x) ]_vars

(* a stop_bot of tenant 1 has failed while tenant 2 is registered and one of
   its end-users has a history *)
C16_Witness ==
    /\ \E p \in CallIds :
          /\ calls[p].op = "stop_bot" /\ calls[p].bot_id = 1
          /\ Done(p) /\ calls[p].branch = "except"
    /\ 2 \in DOMAIN bots
    /\ \E u \in Users : Len(History(bots[2], u)) >= 2

----------------------------------------------------------------------------
(* Properties of the gateway client, checked under SpecGateway *)

(* the step is the invocation of a chat *)
ChatCalled ==
    /\ Len(gw'.calls) = Len(gw.calls) + 1
    /\ gw'.calls[Len(gw'.calls)].op = "chat"

(* C18: at most one session is open at any time; a chat made while the
   session is open uses that session and makes no new one; a chat made when
   the session has been closed makes a new session, which is open when the
   request is sent. *)
C18_OneSessionReusedAndReopened ==
    [][ /\ Cardinality(OpenSessions(gw')) <= 1
        /\ ChatCalled
             => LET c == gw'.calls[Len(gw'.calls)] IN
                /\ c.session \in OpenSessions(gw')
                /\ gw.session \in OpenSessions(gw)
                     => c.session = gw.session /\ gw'.created = gw.created
                /\ gw.session \notin OpenSessions(gw)
                     => c.session = gw.created + 1 /\ gw'.created = gw.created + 1
      ]_vars

(* two chats have used the first session, a close has returned, and a later
   chat has been answered on a second session *)
C18_Witness ==
    \E i, j, k, l \in 1..Len(gw.calls) :
        /\ i < j /\ j < k /\ k < l
        /\ gw.calls[i].op = "chat" /\ gw.calls[i].session = 1
        /\ gw.calls[j].op = "chat" /\ gw.calls[j].session = 1
        /\ gw.calls[k].op = "close" /\ gw.calls[k].pc = "done"
        /\ gw.calls[k].session = 1
        /\ gw.calls[l].op = "chat" /\ gw.calls[l].session = 2
        /\ gw.calls[l].pc = "done" /\ gw.calls[l].result = ReplyText(l)

----------------------------------------------------------------------------
(* Properties of stop_all, checked under SpecStopAll *)

(* the turn of the sequence q into the set of its elements *)
Range(q) == {q[i] : i \in 1..Len(q)}

(* C15: when stop_all returns it has invoked stop_bot once for each tenant
   that was registered when it was called, whatever the earlier stop_bot
   calls returned; and when no start_bot was made and none of its stop_bot
   calls ended in a failure, the registry is empty. *)
C15_StopAllStopsEverySnapshotTenant ==
    stopall.pc = "done"
    => /\ Len(stopall.issued) = Cardinality(stopall.snapshot)
       /\ {calls[p].bot_id : p \in Range(stopall.issued)} = stopall.snapshot
       /\ \A p \in Range(stopall.issued) : calls[p].op = "stop_bot" /\ Done(p)
       /\ ( /\ \A p \in CallIds : calls[p].op # "start_bot"
            /\ \A p \in Range(stopall.issued) : calls[p].branch # "except" )
          => bots = BotManagerInit

(* stop_all has returned after its first stop_bot failed and its second
   stopped the tenant; stop_all has returned with an empty registry *)
C15_Witness ==
    /\ stopall.pc = "done"
    /\ Len(stopall.issued) >= 2
    /\ calls[stopall.issued[1]].branch = "except"
    /\ calls[stopall.issued[2]].result = "True"
    /\ DOMAIN bots = {calls[stopall.issued[1]].bot_id}

----------------------------------------------------------------------------
(* Properties of the factory's handlers, checked under SpecFactory *)

(* C20: a manage, stop, start or delete request for a tenant the operator
   does not own is answered with the text that answers a request for a
   tenant that does not exist, and neither of them changes the registry,
   the workers, the supervisor's calls or the stored rows. *)
C20_NotOwnedLooksLikeNotFound ==
    [][ ( /\ cbs.pc = "answer" /\ cbs'.pc # "answer"
          /\ \/ cbs.bot_id \notin DOMAIN db
             \/ db[cbs.bot_id].user_id # cbs.operator )
        => /\ cbs'.pc = "done"
           /\ cbs'.reply = NotFoundText
           /\ UNCHANGED <<bots, workers, calls, db>>
      ]_vars

(* an operator has asked for a tenant that does not exist and then to
   delete a running tenant of another operator; both were refused, and the
   tenant is still running with its row *)
C20_Witness ==
    /\ cbs.pc = "done" /\ cbs.kind = "delete" /\ cbs.reply = NotFoundText
    /\ cbs.bot_id \in DOMAIN db /\ db[cbs.bot_id].user_id # cbs.operator
    /\ cbs.refused = {"not owned", "missing"}
    /\ cbs.bot_id \in DOMAIN bots /\ db[cbs.bot_id].is_active

(* C24: whenever no request is being handled, every tenant in the registry
   has a row that is marked active; so after a stop or delete request for a
   tenant has been answered the tenant is not in the registry, whatever
   stop_bot returned. *)
C24_RegisteredHasActiveRow ==
    cbs.pc \in {"idle", "done"}
    => /\ \A t \in DOMAIN bots : t \in DOMAIN db /\ db[t].is_active
       /\ (cbs.kind \in {"stop", "delete"} /\ cbs.reply # NotFoundText
              /\ cbs.pc = "done")
            => cbs.bot_id \notin DOMAIN bots

----------------------------------------------------------------------------
(* Properties of a long conversation, checked under SpecScenario *)

(* C21: after 25 messages of one end-user, each answered by the gateway
   before the next, the history has 20 turns and its first turn is the 6th
   user message. *)
C21_TwentyFiveMessages ==
    ( /\ JustHandled("message")
      /\ lastOp.worker = 1 /\ lastOp.user = 1 /\ lastOp.n = 25
      /\ Len(log[1][1]) = 50 )
    => /\ Len(History(1, 1)) = HistoryCap
       /\ History(1, 1)[1] = Turn("user", UserText(6))

----------------------------------------------------------------------------
(* Properties of a new run of the process, checked under SpecRestart *)

(* C22: once run has started the process and no request is being handled,
   every tenant whose row is marked active has a worker in the registry
   whose updater is polling. *)
C22_ActiveTenantsRunAfterStart ==
    cbs.pc \in {"idle", "done"}
    => \A b \in get_all_active_bots(db) :
          /\ b \in DOMAIN bots
          /\ workers[bots[b]].polling

----------------------------------------------------------------------------
(* Properties of the creation of a tenant, checked under SpecCreate *)

(* the texts chat returns when the request failed *)
DegradedTexts == {ApiErrorText[1], TimeoutText[1], ProcessingErrorText[1]}

(* C25: no row is stored and no worker is started with one of the
   gateway's error texts as its system_prompt, and when a creation ends
   with the worker not started, the row it stored is no longer in the
   table. *)
C25_NoDegradedProfileAndNoRowWithoutWorker ==
    /\ \A b \in DOMAIN db : db[b].system_prompt \notin DegradedTexts
    /\ \A w \in DOMAIN workers :
           Live(w) => workers[w].system_prompt \notin DegradedTexts
    /\ ( /\ cbs.kind = "create" /\ cbs.pc = "done"
         /\ cbs.reply = CreateFailedText )
       => cbs.bot_id \notin DOMAIN db

====
